---- MODULE Spec2Model ----
(***************************************************************************)
(* react-meteor-data: the MeteorDataManager of one component and the       *)
(* ReactMeteorData lifecycle hooks that drive it                           *)
(* (packages/react-meteor-data/ReactMeteorData.jsx).                       *)
(*                                                                         *)
(* One component instance with its manager is modelled.  The environment   *)
(* is the host (React), which calls the lifecycle hooks, the Tracker,      *)
(* which invalidates and re-runs computations at flush time, and the       *)
(* user's getMeteorData, whose completion and tracked reads are chosen     *)
(* nondeterministically at every call.  Each hook runs to completion       *)
(* before anything else happens (JavaScript is single threaded); pc is the *)
(* position inside the running hook or computation body.                   *)
(*                                                                         *)
(* Spec and FairSpec are that component alone.  DetSpec makes getMeteorData*)
(* a function of what it reads, NestedSpec renders the component inside a  *)
(* computation of other code, and TwoSpec adds a second component of the   *)
(* same class with a manager of its own.                                   *)
(***************************************************************************)
EXTENDS Naturals, Sequences, FiniteSets

VARIABLES
    isServer,          \* Meteor.isServer
    hasGetMeteorData,  \* component.getMeteorData is defined
    phase,             \* host lifecycle of the component
    pc,                \* position inside the running hook / computation body
    hook,              \* which hook is running: "none", "mount", "update"
    props,             \* component.props
    state,             \* component.state
    saveProps,         \* componentWillUpdate's saveProps
    saveState,         \* componentWillUpdate's saveState
    nextProps,         \* componentWillUpdate's argument
    nextState,         \* componentWillUpdate's argument
    data,              \* component.data
    failedToGetData,   \* component.failedToGetData
    setState,          \* component.setState: "orig" or the throwing "guard"
    oldData,           \* manager.oldData
    computation,       \* manager.computation: 0 is null, else a computation id
    comps,             \* every Tracker computation created so far, by id
    pending,           \* Tracker's pendingComputations (awaiting flush)
    cur,               \* the computation whose body is executing (c), 0 if none
    newData,           \* the hook's newData (what calculateData returned)
    localOld,          \* updateData's local oldData (the previous snapshot)
    fetched,           \* how the getMeteorData call of this hook completed
    forcePending,      \* forceUpdate() was requested and the re-render has not finished
    escaped,           \* the exception that left a hook: "none" or its origin
    savedSetState,     \* calculateData's savedSetState (first run)
    pendingState,      \* a state update an unguarded setState call enqueued
    fetchCalls,        \* calls of getMeteorData in the running hook
    disposeCalls,      \* calls of dispose() so far
    deterministic,     \* getMeteorData is a function of sources, props, state
    memo,              \* the last fetch, while what it read is unchanged
    prior,             \* what the previous calculateData returned (running hook)
    outer,             \* a computation of other code around the render
    enclosing,         \* Tracker.currentComputation at the running hook
    other              \* a second component and its manager

vars == << isServer, hasGetMeteorData, phase, pc, hook, props, state, saveProps,
           saveState, nextProps, nextState, data, failedToGetData, setState,
           oldData, computation, comps, pending, cur, newData, localOld,
           fetched, forcePending, escaped,
           savedSetState,
           pendingState,
           fetchCalls,
           disposeCalls,
           deterministic, memo, prior, outer, enclosing, other >>

----------------------------------------------------------------------------
(* Bounds and input domains *)

\* Computations one behaviour may create (each client calculateData makes one).
MaxComps == 3

\* Calls of dispose() one behaviour may make.
MaxDisposeCalls == 2

Sources == {"a", "b"}          \* reactive data sources a fetch may read
SnapKeys == {"count", "name"}  \* keys getMeteorData may return
ExtKeys == {"ext"}             \* a key other code writes into component.data
AllKeys == SnapKeys \cup ExtKeys
Vals == {"v1", "v2"}
Absent == "absent"             \* the key is not in the object
PropVals == {"p1", "p2"}
StateVals == {"s1", "s2"}
NoVal == "none"                \* a local that is not in scope

----------------------------------------------------------------------------
(* JavaScript values: getMeteorData may return anything *)

EmptyFields == [k \in SnapKeys |-> Absent]
Obj(f) == [kind |-> "object", fields |-> f]
EmptyObj == Obj(EmptyFields)
UndefinedV == [kind |-> "undefined", fields |-> EmptyFields]
NullV == [kind |-> "null", fields |-> EmptyFields]
NumberV == [kind |-> "number", fields |-> EmptyFields]      \* a non-zero number
FunctionV == [kind |-> "function", fields |-> EmptyFields]
Snapshots == {Obj(f) : f \in [SnapKeys -> Vals \cup {Absent}]}
Values == Snapshots \cup {UndefinedV, NullV, NumberV, FunctionV}

\* for (let key in v): the enumerable keys; null, undefined and primitives
\* enumerate nothing.
ForInKeys(v) == {k \in SnapKeys : v.fields[k] # Absent}
\* key in v: legal only on objects and functions, a TypeError otherwise.
InLegal(v) == v.kind \in {"object", "function"}
KeyIn(k, v) == k \in ForInKeys(v)
\* if (v)
Truthy(v) == v.kind \notin {"undefined", "null"}

\* How one call of getMeteorData completes, and the sources it read.
\* "setState": getMeteorData calls component.setState and, if that call
\* returns, returns an empty snapshot.
Outcomes ==
    [type : {"return"}, value : Values, reads : SUBSET Sources]
    \cup [type : {"throw"}, value : {UndefinedV}, reads : SUBSET Sources]
    \cup [type : {"setState"}, value : {EmptyObj}, reads : SUBSET Sources]
NoFetch == [type |-> "none", value |-> UndefinedV, reads |-> {},
            mutator |-> FALSE]

\* the state update a setState call in getMeteorData asks for
MutatedState == "s2"

\* The completions used where only success or failure of the fetch matters.
FairOutcomes ==
    {o \in Outcomes :
        \/ o.type = "throw"
        \/ o.value \in {Obj([k \in SnapKeys |->
                                 IF k = "count" THEN "v1" ELSE Absent]), NullV}}

\* No fetch remembered / no previous result known.
NoMemo ==
    [valid |-> FALSE,
     out |-> [type |-> "none", value |-> UndefinedV, reads |-> {}],
     result |-> UndefinedV]
NoPrior == [known |-> FALSE, result |-> UndefinedV]

----------------------------------------------------------------------------
(* Tracker computations *)

\* An unrelated computation of other code, as Tracker.currentComputation
\* (an id no computation of the component has).
OuterComputation == MaxComps + 1

\* Mutant: autorun is called without Tracker.nonreactive.
Nonreactive_Missing(e) == e

\* Tracker.nonreactive(f): f runs with no current computation
Nonreactive(e) == 0

\* Tracker.autorun called while e is the current computation: the new
\* computation is nested in (stopped with) the computation autorun sees.
NewComputation(e) ==
    [stopped |-> FALSE, invalidated |-> FALSE, firstRun |-> TRUE,
     deps |-> {}, forceUpdates |-> 0, parent |-> Nonreactive(e), within |-> e]

Ids == 1..Len(comps)
Running(cs) == {c \in 1..Len(cs) : ~cs[c].stopped}

\* Computation.invalidate(): the computation leaves every dependency it read.
Invalidate(cs, c) == [cs EXCEPT ![c].invalidated = TRUE, ![c].deps = {}]

\* Computation.stop()
Stop(cs, c) ==
    IF cs[c].stopped THEN cs
    ELSE Invalidate([cs EXCEPT ![c].stopped = TRUE], c)

\* autorun returns: a nested computation is stopped when its parent is
\* invalidated, at once if the parent already is
AutorunReturn(cs, c, out) ==
    LET p == cs[c].parent
    IN  IF \/ p = OuterComputation /\ out = "invalidated"
           \/ p \in 1..Len(cs) /\ cs[p].invalidated
        THEN Stop(cs, c)
        ELSE cs

----------------------------------------------------------------------------
(* MeteorDataManager *)

\* Mutant: calculateData drops the old handle without stopping it.
StopOld_Skip(cs, h) == cs

\* Mutant: calculateData stops every computation there is.
StopOld_All(cs, h) == [c \in 1..Len(cs) |-> Stop(cs, c)[c]]

\* calculateData: if (this.computation) { this.computation.stop(); ... }
StopOld(cs, h) == IF h # 0 THEN Stop(cs, h) ELSE cs

\* Mutant: dispose clears the handle without stopping the computation.
DisposeStop_Skip(cs, h) == cs

\* dispose: if (this.computation) { this.computation.stop(); ... }
DisposeStop(cs, h) == IF h # 0 THEN Stop(cs, h) ELSE cs

\* Mutant: the re-run branch forces the update without c.stop().
RerunStop_Skip(cs, c) == cs

\* the re-run branch of the autorun body: c.stop()
RerunStop(cs, c) == Stop(cs, c)

\* Mutant: calculateData runs the autorun on the server as well.
UseTracker_Always(srv) == TRUE

\* calculateData: if (Meteor.isServer) return component.getMeteorData()
UseTracker(srv) == ~srv

\* Mutant: the first run leaves component.setState alone.
GuardInstalled_Missing == "orig"

\* the first run: component.setState = () => { throw new Error(...) }
GuardInstalled == "guard"

\* Mutant: setState is put back only after a fetch that succeeded.
RestoredSetState_OnSuccess(r, saved) ==
    IF r.type = "return" /\ r.value.kind = "object" THEN saved ELSE "guard"

\* the first run's finally: component.setState = savedSetState
RestoredSetState(r, saved) == saved

\* One call of getMeteorData with component.setState = ss: a call of the
\* guard throws out of getMeteorData, a call of the original enqueues the
\* update and getMeteorData goes on to return.
Complete(o, ss) ==
    IF o.type = "setState"
    THEN IF ss = "guard"
         THEN [type |-> "throw", value |-> UndefinedV, mutated |-> FALSE]
         ELSE [type |-> "return", value |-> o.value, mutated |-> TRUE]
    ELSE [type |-> o.type, value |-> o.value, mutated |-> FALSE]

\* Mutant: a first run that failed keeps no dependency.
FirstRunDeps_LostOnFailure(r, reads) ==
    IF r.type = "return" /\ r.value.kind = "object" THEN reads ELSE {}

\* the sources the first run read stay the computation's dependencies; the
\* catch is inside the computation's function
FirstRunDeps(r, reads) == reads

\* Mutant: componentWillUpdate leaves the next props and state in place.
RestoredProps_Next(saved, next) == next

\* componentWillUpdate's finally: component.props = saveProps (and state)
RestoredProps(saved, next) == saved

\* Mutant: calculateData without a fetch function returns undefined.
NoFetchResult_Undefined == UndefinedV

\* Mutant: the re-run branch stops c and forgets component.forceUpdate().
ForceRequested_Never(ph) == FALSE

\* the re-run branch: component.forceUpdate() asks a mounted component's host
\* for a re-render
ForceRequested(ph) == ph = "mounted"

\* calculateData without a fetch function: return null
NoFetchResult == NullV

\* the first run's validation: data && typeof data === 'object'
ValidData(o) == o.type = "return" /\ o.value.kind = "object"

\* the first run's result: the fetched object, or undefined from the catch
FirstRunData(o) == IF ValidData(o) THEN o.value ELSE UndefinedV

\* updateData: let failedToGetData = (newData === undefined)
FailedToGetData(v) == v.kind = "undefined"

\* updateData: if (failedToGetData) newData = {}
Effective(v) == IF FailedToGetData(v) THEN EmptyObj ELSE v

\* Mutant: updateData does not copy the new snapshot into component.data.
WriteKeys_None(d, nd) == d

\* updateData: for (let key in newData) component.data[key] = newData[key]
WriteKeys(d, nd) ==
    [k \in AllKeys |-> IF k \in ForInKeys(nd) THEN nd.fields[k] ELSE d[k]]

\* Mutant: updateData never deletes the keys of the previous snapshot.
DeleteKeys_None(d, old, nd) == d

\* updateData: delete the keys of oldData that are not in newData
DeleteKeys(d, old, nd) ==
    [k \in AllKeys |->
        IF k \in ForInKeys(old) /\ ~KeyIn(k, nd) THEN Absent ELSE d[k]]

\* updateData: `key in newData` raises a TypeError on null and primitives; it
\* is evaluated for the first key of a truthy oldData.
UpdateThrows(old, nd) == Truthy(old) /\ ForInKeys(old) # {} /\ ~InLegal(nd)

\* updateData(newData) on component.data d and this.oldData old
UpdateData(d, old, fg, v) ==
    LET nd == Effective(v)
        d1 == WriteKeys(d, nd)
    IN  IF UpdateThrows(old, nd)
        THEN [threw |-> TRUE, data |-> d1, oldData |-> old, failed |-> fg]
        ELSE [threw |-> FALSE,
              data |-> IF Truthy(old) THEN DeleteKeys(d1, old, nd) ELSE d1,
              oldData |-> nd,
              failed |-> FailedToGetData(v)]

----------------------------------------------------------------------------
(* Initial state: the component is constructed, not yet mounted *)

Constructed ==
    /\ isServer \in BOOLEAN
    /\ hasGetMeteorData \in BOOLEAN
    /\ phase = "new"
    /\ pc = "idle"
    /\ hook = "none"
    /\ props \in PropVals
    /\ state \in StateVals
    /\ saveProps = NoVal /\ saveState = NoVal
    /\ nextProps = NoVal /\ nextState = NoVal
    /\ data = [k \in AllKeys |-> Absent]
    /\ failedToGetData = FALSE
    /\ setState = "orig"
    /\ oldData = NullV
    /\ computation = 0
    /\ comps = << >>
    /\ pending = {}
    /\ cur = 0
    /\ newData = UndefinedV
    /\ localOld = NullV
    /\ fetched = NoFetch
    /\ forcePending = FALSE
    /\ escaped = "none"
    /\ savedSetState = NoVal
    /\ pendingState = NoVal
    /\ fetchCalls = 0
    /\ disposeCalls = 0
    /\ memo = NoMemo
    /\ prior = NoPrior
    /\ enclosing = 0

\* No second component: its manager and component fields as constructed.
NoOther ==
    [phase |-> "absent", data |-> [k \in AllKeys |-> Absent],
     failedToGetData |-> FALSE, oldData |-> NullV, computation |-> 0,
     made |-> {}, forcePending |-> FALSE]

\* One component, rendered outside any computation, its getMeteorData free to
\* complete differently at every call.
Init ==
    /\ Constructed
    /\ deterministic = FALSE
    /\ outer = "none"
    /\ other = NoOther

\* A client calculateData creates a computation: the hooks stop at the bound.
CanCalculate == isServer \/ ~hasGetMeteorData \/ Len(comps) < MaxComps

----------------------------------------------------------------------------
(* Lifecycle hooks *)

\* componentWillMount, up to the call of calculateData
Mount ==
    /\ pc = "idle" /\ phase = "new" /\ CanCalculate
    /\ data' = [k \in AllKeys |-> Absent]
    /\ computation' = 0
    /\ oldData' = NullV
    /\ hook' = "mount"
    /\ enclosing' = IF outer = "active" THEN OuterComputation ELSE 0
    /\ pc' = "calc"
    /\ UNCHANGED << isServer, hasGetMeteorData, phase, props, state, saveProps,
                    saveState, nextProps, nextState, failedToGetData, setState,
                    comps, pending, cur, newData, localOld, fetched,
                    forcePending, escaped,
                    savedSetState,
                    pendingState,
                    fetchCalls,
                    disposeCalls,
                    deterministic, memo, prior, outer, other >>

\* componentWillUpdate(nextProps, nextState), up to the call of calculateData.
\* The host calls it for a props or state change and for a forced re-render.
PreUpdate(np, ns) ==
    /\ pc = "idle" /\ phase = "mounted" /\ CanCalculate
    /\ saveProps' = props /\ saveState' = state
    /\ nextProps' = np /\ nextState' = ns
    /\ props' = np /\ state' = ns
    /\ hook' = "update"
    /\ enclosing' = IF forcePending /\ computation # 0
                        /\ comps[computation].stopped
                     THEN computation ELSE 0
    /\ memo' = IF np = props /\ ns = state THEN memo ELSE NoMemo
    /\ pc' = "calc"
    /\ UNCHANGED << isServer, hasGetMeteorData, phase, data, failedToGetData,
                    setState, oldData, computation, comps, pending, cur,
                    newData, localOld, fetched, forcePending, escaped,
                    savedSetState,
                    pendingState,
                    fetchCalls,
                    disposeCalls,
                    deterministic, prior, outer, other >>

\* calculateData, up to the call of getMeteorData
CalculateData ==
    /\ pc = "calc"
    /\ IF ~hasGetMeteorData
       THEN /\ newData' = NoFetchResult
            /\ pc' = "ret"
            /\ UNCHANGED << computation, comps, cur, setState, savedSetState >>
       ELSE IF ~UseTracker(isServer)
       THEN /\ pc' = "fetch"
            /\ UNCHANGED << computation, comps, cur, setState, savedSetState,
                            newData >>
       ELSE /\ comps' = Append(StopOld(comps, computation),
                              NewComputation(enclosing))
            /\ computation' = 0
            /\ cur' = Len(comps) + 1
            /\ savedSetState' = setState
            /\ setState' = GuardInstalled
            /\ pc' = "fetch"
            /\ UNCHANGED newData
    /\ UNCHANGED << isServer, hasGetMeteorData, phase, hook, props, state,
                    saveProps, saveState, nextProps, nextState, data,
                    failedToGetData, oldData, pending, localOld, fetched,
                    forcePending, escaped, pendingState, fetchCalls,
                    disposeCalls,
                    deterministic, memo, prior, outer, enclosing, other >>

\* getMeteorData runs and completes as o; calculateData returns or raises
Fetch(o) ==
    /\ pc = "fetch"
    /\ memo.valid => o = memo.out
    /\ prior' = [known |-> memo.valid, result |-> memo.result]
    /\ LET r == Complete(o, setState)
       IN  /\ fetched' = [type |-> r.type, value |-> r.value,
                          reads |-> o.reads, mutator |-> o.type = "setState"]
           /\ pendingState' = IF r.mutated THEN MutatedState ELSE pendingState
           /\ fetchCalls' = fetchCalls + 1
           /\ IF cur = 0
              THEN /\ IF r.type = "throw"
                      THEN /\ escaped' = "getMeteorData"
                           /\ pc' = "raise"
                           /\ UNCHANGED newData
                      ELSE /\ newData' = r.value
                           /\ pc' = "ret"
                           /\ UNCHANGED escaped
                   /\ UNCHANGED << computation, comps, cur, setState,
                                   savedSetState >>
              ELSE /\ newData' = FirstRunData(r)
                   /\ comps' = AutorunReturn(
                          [comps EXCEPT ![cur].firstRun = FALSE,
                                        ![cur].deps = FirstRunDeps(r, o.reads)],
                          cur, outer)
                   /\ computation' = cur
                   /\ cur' = 0
                   /\ setState' = RestoredSetState(r, savedSetState)
                   /\ savedSetState' = NoVal
                   /\ pc' = "ret"
                   /\ UNCHANGED escaped
    /\ memo' = IF deterministic
               THEN [valid |-> TRUE, out |-> o, result |-> newData']
               ELSE memo
    /\ UNCHANGED << isServer, hasGetMeteorData, phase, hook, props, state,
                    saveProps, saveState, nextProps, nextState, data,
                    failedToGetData, oldData, pending, localOld, forcePending,
                    disposeCalls,
                    deterministic, outer, enclosing, other >>

\* the hook after calculateData returned: restore props and state (update),
\* then updateData(newData)
FinishHook ==
    /\ pc = "ret"
    /\ props' = IF hook = "update" THEN RestoredProps(saveProps, props)
                                   ELSE props
    /\ state' = IF hook = "update" THEN RestoredProps(saveState, state)
                                   ELSE state
    /\ LET r == UpdateData(data, oldData, failedToGetData, newData)
       IN  /\ data' = r.data
           /\ oldData' = r.oldData
           /\ failedToGetData' = r.failed
           /\ localOld' = oldData
           /\ pc' = IF r.threw THEN "raise" ELSE "done"
           /\ escaped' = IF r.threw THEN "updateData" ELSE escaped
    /\ UNCHANGED << isServer, hasGetMeteorData, phase, hook, saveProps,
                    saveState, nextProps, nextState, setState, computation,
                    comps, pending, cur, newData, fetched, forcePending,
                    savedSetState,
                    pendingState,
                    fetchCalls,
                    disposeCalls,
                    deterministic, memo, prior, outer, enclosing, other >>

\* an exception leaves the hook: componentWillUpdate's finally restores props
\* and state, and the host abandons the component
Raise ==
    /\ pc = "raise"
    /\ props' = IF hook = "update" THEN RestoredProps(saveProps, props)
                                   ELSE props
    /\ state' = IF hook = "update" THEN RestoredProps(saveState, state)
                                   ELSE state
    /\ phase' = "crashed"
    /\ pc' = "idle"
    /\ hook' = "none"
    /\ saveProps' = NoVal /\ saveState' = NoVal
    /\ nextProps' = NoVal /\ nextState' = NoVal
    /\ newData' = UndefinedV /\ localOld' = NullV /\ fetched' = NoFetch
    /\ forcePending' = FALSE
    /\ pendingState' = NoVal /\ fetchCalls' = 0
    /\ prior' = NoPrior /\ enclosing' = 0
    /\ UNCHANGED << isServer, hasGetMeteorData, data, failedToGetData, setState,
                    oldData, computation, comps, pending, cur, escaped,
                    savedSetState, disposeCalls, deterministic, memo, outer,
                    other >>

\* the hook returns; the host makes the next props and state current and renders
Render ==
    /\ pc = "done"
    /\ phase' = "mounted"
    /\ props' = IF hook = "update" THEN nextProps ELSE props
    /\ state' = IF pendingState # NoVal THEN pendingState
                ELSE IF hook = "update" THEN nextState ELSE state
    /\ pc' = "idle"
    /\ hook' = "none"
    /\ saveProps' = NoVal /\ saveState' = NoVal
    /\ nextProps' = NoVal /\ nextState' = NoVal
    /\ newData' = UndefinedV /\ localOld' = NullV /\ fetched' = NoFetch
    /\ forcePending' = FALSE
    /\ pendingState' = NoVal /\ fetchCalls' = 0
    /\ prior' = NoPrior /\ enclosing' = 0
    /\ UNCHANGED << isServer, hasGetMeteorData, data, failedToGetData, setState,
                    oldData, computation, comps, pending, cur, escaped,
                    savedSetState, disposeCalls, deterministic, memo, outer,
                    other >>

\* componentWillUnmount: dispose()
Dispose ==
    /\ pc = "idle" /\ phase \in {"mounted", "crashed", "unmounted"}
    /\ disposeCalls < MaxDisposeCalls
    /\ disposeCalls' = disposeCalls + 1
    /\ comps' = DisposeStop(comps, computation)
    /\ computation' = 0
    /\ phase' = "unmounted"
    /\ forcePending' = FALSE
    /\ UNCHANGED << isServer, hasGetMeteorData, pc, hook, props, state,
                    saveProps, saveState, nextProps, nextState, data,
                    failedToGetData, setState, oldData, pending, cur, newData,
                    localOld, fetched, escaped, savedSetState, pendingState,
                    fetchCalls,
                    deterministic, memo, prior, outer, enclosing, other >>

----------------------------------------------------------------------------
(* Tracker and other code around the component *)

\* Dependency.changed() on source s: every running computation that read s is
\* invalidated and queued for the next flush
SourceChanged(s) ==
    /\ pc = "idle"
    /\ \E c \in Ids : s \in comps[c].deps
    /\ LET hit == {c \in Ids : s \in comps[c].deps /\ ~comps[c].stopped}
       IN  /\ comps' = [c \in Ids |->
                           IF c \in hit THEN Invalidate(comps, c)[c] ELSE comps[c]]
           /\ pending' = pending \cup hit
    /\ memo' = IF s \in memo.out.reads THEN NoMemo ELSE memo
    /\ UNCHANGED << isServer, hasGetMeteorData, phase, pc, hook, props, state,
                    saveProps, saveState, nextProps, nextState, data,
                    failedToGetData, setState, oldData, computation, cur,
                    newData, localOld, fetched, forcePending, escaped,
                    savedSetState,
                    pendingState,
                    fetchCalls,
                    disposeCalls,
                    deterministic, prior, outer, enclosing, other >>

\* Tracker flush takes c from the queue; a stopped computation is not re-run
FlushSkip(c) ==
    /\ pc = "idle" /\ c \in pending
    /\ ~(comps[c].invalidated /\ ~comps[c].stopped)
    /\ pending' = pending \ {c}
    /\ UNCHANGED << isServer, hasGetMeteorData, phase, pc, hook, props, state,
                    saveProps, saveState, nextProps, nextState, data,
                    failedToGetData, setState, oldData, computation, comps, cur,
                    newData, localOld, fetched, forcePending, escaped,
                    savedSetState,
                    pendingState,
                    fetchCalls,
                    disposeCalls,
                    deterministic, memo, prior, outer, enclosing, other >>

\* Tracker flush re-runs the invalidated computation c: not the first run, so
\* the body stops c
FlushRerun(c) ==
    /\ pc = "idle" /\ c \in pending
    /\ comps[c].invalidated /\ ~comps[c].stopped
    /\ ~comps[c].firstRun
    /\ c \notin other.made
    /\ pending' = pending \ {c}
    /\ comps' = RerunStop([comps EXCEPT ![c].invalidated = FALSE], c)
    /\ cur' = c
    /\ pc' = "force"
    /\ UNCHANGED << isServer, hasGetMeteorData, phase, hook, props, state,
                    saveProps, saveState, nextProps, nextState, data,
                    failedToGetData, setState, oldData, computation, newData,
                    localOld, fetched, forcePending, escaped,
                    savedSetState,
                    pendingState,
                    fetchCalls,
                    disposeCalls,
                    deterministic, memo, prior, outer, enclosing, other >>

\* the re-run branch, after c.stop(): component.forceUpdate()
ForceUpdate ==
    /\ pc = "force"
    /\ comps' = [comps EXCEPT ![cur].forceUpdates = @ + 1]
    /\ forcePending' = ForceRequested(phase)
    /\ cur' = 0
    /\ pc' = "idle"
    /\ UNCHANGED << isServer, hasGetMeteorData, phase, hook, props, state,
                    saveProps, saveState, nextProps, nextState, data,
                    failedToGetData, setState, oldData, computation, pending,
                    newData, localOld, fetched, escaped,
                    savedSetState,
                    pendingState,
                    fetchCalls,
                    disposeCalls,
                    deterministic, memo, prior, outer, enclosing, other >>

\* other code writes its own key into component.data
ExternalWrite(v) ==
    /\ pc = "idle" /\ phase = "mounted"
    /\ data' = [data EXCEPT !["ext"] = v]
    /\ UNCHANGED << isServer, hasGetMeteorData, phase, pc, hook, props, state,
                    saveProps, saveState, nextProps, nextState, failedToGetData,
                    setState, oldData, computation, comps, pending, cur,
                    newData, localOld, fetched, forcePending, escaped,
                    savedSetState,
                    pendingState,
                    fetchCalls,
                    disposeCalls,
                    deterministic, memo, prior, outer, enclosing, other >>

----------------------------------------------------------------------------

\* One step of the program and its environment, getMeteorData completing in
\* one of the ways in O.
NextWith(O) ==
    \/ Mount
    \/ \E np \in PropVals, ns \in StateVals : PreUpdate(np, ns)
    \/ CalculateData
    \/ \E o \in O : Fetch(o)
    \/ FinishHook
    \/ Raise
    \/ Render
    \/ Dispose
    \/ \E s \in Sources : SourceChanged(s)
    \/ \E c \in Ids : FlushSkip(c)
    \/ \E c \in Ids : FlushRerun(c)
    \/ ForceUpdate
    \/ \E v \in {"v1", Absent} : ExternalWrite(v)

Next == NextWith(Outcomes)

Spec == Init /\ [][Next]_vars

\* Scheduling the program can rely on: a started hook or computation body runs
\* to its end, the Tracker flushes its queue, and the host runs the re-render
\* that forceUpdate() asked for (with the current props and state).  Source
\* changes, props changes, unmounting and other writers are not obliged to
\* happen.
Fairness ==
    /\ WF_vars(CalculateData)
    /\ WF_vars(\E o \in FairOutcomes : Fetch(o))
    /\ WF_vars(FinishHook)
    /\ WF_vars(Raise)
    /\ WF_vars(Render)
    /\ WF_vars(\E c \in Ids : FlushSkip(c) \/ FlushRerun(c))
    /\ WF_vars(ForceUpdate)
    /\ WF_vars(forcePending /\ PreUpdate(props, state))

\* The program under that scheduling.  What is eventually recomputed does not
\* depend on the contents of a snapshot, so getMeteorData here returns one
\* snapshot, returns null or throws, reading any set of sources.
FairNext == NextWith(FairOutcomes)

FairSpec == Init /\ [][FairNext]_vars /\ Fairness

----------------------------------------------------------------------------
(* A getMeteorData that is a function of what it reads *)

\* getMeteorData completes as it did at the previous call for as long as no
\* source that call read has changed and props and state are the same.
DetInit ==
    /\ Constructed
    /\ deterministic = TRUE
    /\ outer = "none"
    /\ other = NoOther

DetSpec == DetInit /\ [][FairNext]_vars

----------------------------------------------------------------------------
(* Rendering inside a computation of other code *)

\* The component is mounted by code running inside a computation.
NestedInit ==
    /\ Constructed
    /\ deterministic = FALSE
    /\ outer = "active"
    /\ other = NoOther

\* The enclosing computation is invalidated or stopped: Tracker stops the
\* computations nested in it.
OuterInvalidated ==
    /\ pc = "idle" /\ outer = "active"
    /\ outer' = "invalidated"
    /\ comps' = [c \in Ids |->
                    IF comps[c].parent = OuterComputation
                    THEN Stop(comps, c)[c] ELSE comps[c]]
    /\ UNCHANGED << isServer, hasGetMeteorData, phase, pc, hook, props, state,
                    saveProps, saveState, nextProps, nextState, data,
                    failedToGetData, setState, oldData, computation, pending,
                    cur, newData, localOld, fetched, forcePending, escaped,
                    savedSetState, pendingState, fetchCalls, disposeCalls,
                    deterministic, memo, prior, enclosing, other >>

NestedNext == FairNext \/ OuterInvalidated

NestedSpec == NestedInit /\ [][NestedNext]_vars

----------------------------------------------------------------------------
(* A second component with its own manager *)

\* Two components of the same class, each constructed with a manager of its
\* own; they share Tracker and the sources.
TwoInit ==
    /\ Constructed
    /\ deterministic = FALSE
    /\ outer = "none"
    /\ other = [NoOther EXCEPT !.phase = "new"]

\* A whole hook of the second component, getMeteorData completing as o:
\* calculateData, then updateData on the component's own fields.  The result
\* is the Tracker's computations and the second component afterwards.
OtherHook(o, d, old) ==
    LET id == Len(comps) + 1
        r  == Complete(o, IF UseTracker(isServer) THEN GuardInstalled
                                                   ELSE "orig")
        cs == IF hasGetMeteorData /\ UseTracker(isServer)
              THEN AutorunReturn(
                     [Append(StopOld(comps, other.computation),
                             NewComputation(0))
                        EXCEPT ![id].firstRun = FALSE,
                               ![id].deps = FirstRunDeps(r, o.reads)],
                     id, outer)
              ELSE comps
        h  == IF hasGetMeteorData /\ UseTracker(isServer) THEN id ELSE 0
        raised == hasGetMeteorData /\ ~UseTracker(isServer)
                      /\ r.type = "throw"
        nd == IF ~hasGetMeteorData THEN NoFetchResult
              ELSE IF UseTracker(isServer) THEN FirstRunData(r)
              ELSE r.value
        u  == UpdateData(d, old, other.failedToGetData, nd)
    IN  [comps |-> cs,
         other |-> IF raised
                   THEN [other EXCEPT !.phase = "crashed", !.data = d,
                                      !.oldData = old,
                                      !.forcePending = FALSE]
                   ELSE [phase |-> IF u.threw THEN "crashed" ELSE "mounted",
                         data |-> u.data,
                         failedToGetData |-> u.failed,
                         oldData |-> u.oldData,
                         computation |-> h,
                         made |-> IF h = 0 THEN other.made
                                           ELSE other.made \cup {h},
                         forcePending |-> FALSE]]

\* componentWillMount of the second component
OtherMount(o) ==
    /\ pc = "idle" /\ other.phase = "new" /\ CanCalculate
    /\ LET a == OtherHook(o, [k \in AllKeys |-> Absent], NullV)
       IN  comps' = a.comps /\ other' = a.other
    /\ UNCHANGED << isServer, hasGetMeteorData, phase, pc, hook, props, state,
                    saveProps, saveState, nextProps, nextState, data,
                    failedToGetData, setState, oldData, computation, pending,
                    cur, newData, localOld, fetched, forcePending, escaped,
                    savedSetState, pendingState, fetchCalls, disposeCalls,
                    deterministic, memo, prior, outer, enclosing >>

\* componentWillUpdate of the second component, then its render
OtherUpdate(o) ==
    /\ pc = "idle" /\ other.phase = "mounted" /\ CanCalculate
    /\ LET a == OtherHook(o, other.data, other.oldData)
       IN  comps' = a.comps /\ other' = a.other
    /\ UNCHANGED << isServer, hasGetMeteorData, phase, pc, hook, props, state,
                    saveProps, saveState, nextProps, nextState, data,
                    failedToGetData, setState, oldData, computation, pending,
                    cur, newData, localOld, fetched, forcePending, escaped,
                    savedSetState, pendingState, fetchCalls, disposeCalls,
                    deterministic, memo, prior, outer, enclosing >>

\* componentWillUnmount of the second component: its manager's dispose()
OtherDispose ==
    /\ pc = "idle" /\ other.phase \in {"mounted", "crashed"}
    /\ comps' = DisposeStop(comps, other.computation)
    /\ other' = [other EXCEPT !.phase = "unmounted", !.computation = 0,
                              !.forcePending = FALSE]
    /\ UNCHANGED << isServer, hasGetMeteorData, phase, pc, hook, props, state,
                    saveProps, saveState, nextProps, nextState, data,
                    failedToGetData, setState, oldData, computation, pending,
                    cur, newData, localOld, fetched, forcePending, escaped,
                    savedSetState, pendingState, fetchCalls, disposeCalls,
                    deterministic, memo, prior, outer, enclosing >>

\* Tracker flush re-runs an invalidated computation of the second manager:
\* c.stop(), then forceUpdate() of the second component
OtherFlushRerun(c) ==
    /\ pc = "idle" /\ c \in pending /\ c \in other.made
    /\ comps[c].invalidated /\ ~comps[c].stopped
    /\ pending' = pending \ {c}
    /\ comps' = [RerunStop([comps EXCEPT ![c].invalidated = FALSE], c)
                    EXCEPT ![c].forceUpdates = @ + 1]
    /\ other' = [other EXCEPT !.forcePending = ForceRequested(other.phase)]
    /\ UNCHANGED << isServer, hasGetMeteorData, phase, pc, hook, props, state,
                    saveProps, saveState, nextProps, nextState, data,
                    failedToGetData, setState, oldData, computation, cur,
                    newData, localOld, fetched, forcePending, escaped,
                    savedSetState, pendingState, fetchCalls, disposeCalls,
                    deterministic, memo, prior, outer, enclosing >>

\* The completions of getMeteorData of either component: it returns one
\* snapshot or throws, having read nothing or the source both can read.
TwoOutcomes ==
    {o \in FairOutcomes : o.reads \subseteq {"a"} /\ o.value # NullV}

TwoNext ==
    \/ NextWith(TwoOutcomes)
    \/ \E o \in TwoOutcomes : OtherMount(o)
    \/ \E o \in TwoOutcomes : OtherUpdate(o)
    \/ OtherDispose
    \/ \E c \in Ids : OtherFlushRerun(c)

TwoSpec == TwoInit /\ [][TwoNext]_vars

----------------------------------------------------------------------------
(* Properties *)

\* C1: at every instant at most one computation created by the manager is
\* running (not stopped): calculateData stops the held computation before it
\* creates the next one.
C1_AtMostOneRunning == Cardinality(Running(comps)) <= 1

\* C1 witness: a second computation runs and the earlier one is stopped.
C1_Witness ==
    /\ Len(comps) >= 2
    /\ comps[1].stopped
    /\ Cardinality(Running(comps)) = 1

\* C2: once dispose() has run, no computation of the manager requests
\* forceUpdate() again and no re-run body is entered, whatever changes later
\* and even if the computation was invalidated but not flushed at dispose.
C2_NoForceAfterDispose ==
    [][phase = "unmounted" =>
          /\ pc' # "force"
          /\ ~forcePending'
          /\ \A c \in Ids : comps'[c].forceUpdates = comps[c].forceUpdates]_vars

\* C2 witness: the manager is disposed while its invalidated computation is
\* still queued for the flush.
C2_Witness ==
    /\ phase = "unmounted"
    /\ \E c \in pending : comps[c].forceUpdates = 0

\* C3: when updateData merges a snapshot S2 after a snapshot S1, data maps
\* every key of S2 to S2's value, holds no key of S1 that S2 lacks, and keeps
\* every key neither snapshot mentions as it was.
C3_PatchSemantics ==
    [][(pc = "ret" /\ pc' = "done"
            /\ oldData.kind = "object" /\ newData.kind = "object") =>
          /\ \A k \in ForInKeys(newData) : data'[k] = newData.fields[k]
          /\ \A k \in ForInKeys(oldData) \ ForInKeys(newData) : data'[k] = Absent
          /\ \A k \in AllKeys \ (ForInKeys(oldData) \cup ForInKeys(newData)) :
                data'[k] = data[k]]_vars

\* C3 witness: S2 was merged after S1; S2 drops a key of S1, changes the value
\* of another, and a key of other code is in data.
C3_Witness ==
    /\ pc = "done"
    /\ localOld.kind = "object" /\ fetched.type = "return"
    /\ oldData = newData /\ newData.kind = "object"
    /\ ForInKeys(localOld) \ ForInKeys(newData) # {}
    /\ \E k \in ForInKeys(localOld) \cap ForInKeys(newData) :
          localOld.fields[k] # newData.fields[k]
    /\ data["ext"] # Absent

\* C4: after every completed mount or pre-update hook that fetched,
\* failedToGetData is true iff the fetch threw or returned something that is
\* not a non-null object, in client and in server mode.
C4_FailedIffNoSnapshot ==
    (pc = "done" /\ fetched.type # "none") =>
        (failedToGetData <=> ~ValidData(fetched))

\* C5: in either mode, when the fetch throws or returns a non-mapping no
\* exception leaves calculateData, calculateData returns undefined, and the
\* merge sets failedToGetData.
C5_NoEscape ==
    (fetched.type # "none" /\ ~ValidData(fetched)) =>
        /\ escaped # "getMeteorData"
        /\ pc = "ret" => newData = UndefinedV
        /\ pc = "done" => failedToGetData

\* C6: without a fetch function data holds no snapshot key, failedToGetData
\* is false and no computation is ever created, after mount and after every
\* pre-update.
C6_NoFetchFunction ==
    ~hasGetMeteorData =>
        /\ \A k \in SnapKeys : data[k] = Absent
        /\ ~failedToGetData
        /\ comps = << >>
        /\ computation = 0
        /\ escaped = "none"

\* C6 witness: a pre-update recomputation of a component without a fetch
\* function has completed.
C6_Witness ==
    ~hasGetMeteorData /\ pc = "done" /\ hook = "update"

\* C7: in client mode the merge after a failed fetch leaves no snapshot key in
\* data and sets failedToGetData; the merge after a successful fetch S leaves
\* exactly S's keys and values and clears failedToGetData.
C7_FailureClearsSnapshot ==
    [][(~isServer /\ pc = "ret" /\ pc' = "done" /\ fetched.type # "none") =>
          IF ValidData(fetched)
          THEN /\ \A k \in SnapKeys : data'[k] = fetched.value.fields[k]
               /\ ~failedToGetData'
          ELSE /\ \A k \in SnapKeys : data'[k] = Absent
               /\ failedToGetData']_vars

\* C7 witness: a fetch threw after a successful fetch with keys, and was merged.
C7_Witness ==
    /\ ~isServer /\ pc = "done"
    /\ fetched.type = "throw"
    /\ ForInKeys(localOld) # {}
    /\ failedToGetData

\* C8: a computation requests forceUpdate() at most once, and one that has
\* requested it is stopped.
C8_SingleShot ==
    \A c \in Ids :
        /\ comps[c].forceUpdates <= 1
        /\ comps[c].forceUpdates = 1 => comps[c].stopped

\* C8 witness: a computation has requested its forced re-render and a source
\* read by its successor changed afterwards.
C8_Witness ==
    \E c \in Ids :
        /\ comps[c].forceUpdates = 1
        /\ \E d \in Ids : d > c /\ d \in pending

\* C9: forceUpdate() is called only by a stopped computation, and from the
\* request until the re-render's calculateData has started no computation of
\* the manager is running; a re-run body never runs inside a hook.
C9_StopBeforeForce ==
    /\ pc = "force" => (cur # 0 /\ comps[cur].stopped /\ hook = "none")
    /\ (forcePending /\ pc \in {"idle", "calc"}) => Running(comps) = {}

\* C9 witness: the forced re-render's calculateData is about to start.
C9_Witness ==
    forcePending /\ pc = "calc" /\ hook = "update" /\ computation # 0

\* A source read by the most recent fetch has changed: the held computation k
\* is invalidated and queued, the component is mounted in client mode, and
\* one more computation fits the bound.
C10_Invalidated(k) ==
    /\ ~isServer /\ phase = "mounted" /\ pc = "idle"
    /\ k \in Ids /\ computation = k /\ k \in pending
    /\ comps[k].invalidated /\ ~comps[k].stopped
    /\ Len(comps) < MaxComps

\* The fetch ran again: a newer running computation is held and k is stopped.
C10_Replaced(k) ==
    /\ k \in Ids /\ comps[k].stopped
    /\ computation > k /\ ~comps[computation].stopped

\* C10 as stated: after such a change, unless the manager is disposed, the
\* invalidated computation eventually requests a forced re-render and a new
\* running computation replaces it.  (Stated where two more computations fit
\* the bound, so that the bound is never what ends a behaviour.)
C10_ForcedRerender ==
    \A k \in 1..(MaxComps - 1) :
        (C10_Invalidated(k) /\ Len(comps) + 1 < MaxComps) ~>
            (phase = "unmounted"
                \/ (C10_Replaced(k) /\ comps[k].forceUpdates = 1))

\* C10 amended: after such a change, unless the manager is disposed, the fetch
\* eventually runs again and a new running computation replaces the
\* invalidated one; the forced re-render is requested only when no pre-update
\* hook recomputes before the flush.
C10_Recomputed ==
    \A k \in 1..(MaxComps - 1) :
        C10_Invalidated(k) ~> (phase = "unmounted" \/ C10_Replaced(k))

\* C10 witness: the invalidated computation requested the forced re-render
\* and the re-render's fetch created the running computation that replaced it.
C10_Witness ==
    \E k \in Ids :
        /\ comps[k].forceUpdates = 1
        /\ forcePending /\ pc = "ret" /\ hook = "update"
        /\ computation = k + 1 /\ ~comps[computation].stopped

----------------------------------------------------------------------------
(* The mutator guard *)

\* C11: outside the fetch of a client-mode calculateData component.setState is
\* the function it was before, whichever way the fetch ended; the guard is
\* never left installed between operations.
C11_GuardScoped ==
    pc # "fetch" => setState = "orig" /\ savedSetState = NoVal

\* a client-mode calculateData has returned after a fetch that threw
C11_Witness ==
    /\ ~isServer /\ pc = "ret" /\ fetched.type = "throw"
    /\ setState = "orig"

\* C12: a fetch that calls setState in client mode fails with the guard's
\* error: no state update is enqueued, nothing escapes calculateData, the
\* snapshot is absent and the failure flag is set by the merge.
C12_GuardedMutator ==
    (~isServer /\ fetched.mutator) =>
        /\ fetched.type = "throw"
        /\ pendingState = NoVal
        /\ escaped = "none" /\ pc # "raise"
        /\ pc = "ret" => newData = UndefinedV
        /\ pc = "done" => failedToGetData

\* the hook has merged the result of a client-mode fetch that called setState
C12_Witness ==
    ~isServer /\ fetched.mutator /\ pc = "done" /\ failedToGetData

----------------------------------------------------------------------------
(* Server mode *)

\* C13: with the server flag set every calculateData calls the fetch exactly
\* once and directly: the computation handle stays null, no computation is
\* created and no forced re-render can be requested.
C13_ServerDirect ==
    isServer =>
        /\ comps = << >> /\ computation = 0 /\ cur = 0
        /\ pending = {} /\ ~forcePending /\ pc # "force"
        /\ hasGetMeteorData =>
              /\ pc \in {"calc", "fetch"} => fetchCalls = 0
              /\ pc \in {"ret", "done", "raise"} => fetchCalls = 1

\* a server-mode pre-update hook has fetched and merged
C13_Witness ==
    /\ isServer /\ hasGetMeteorData /\ hook = "update" /\ pc = "done"
    /\ fetchCalls = 1 /\ computation = 0

----------------------------------------------------------------------------
(* Props and state around the pre-update hook *)

\* C16: the pre-update hook runs the fetch with props and state set to the
\* prospective next values, and when the hook finishes, normally or by
\* raising, props and state are again what they were before the hook.
C16_PropsRestored ==
    /\ [](hook = "update" /\ pc = "fetch" =>
              props = nextProps /\ state = nextState)
    /\ [](hook = "update" /\ pc = "done" =>
              props = saveProps /\ state = saveState)
    /\ [][hook = "update" /\ pc = "raise" =>
              props' = saveProps /\ state' = saveState]_vars

\* a pre-update hook for changed props and state has finished
C16_Witness ==
    /\ hook = "update" /\ pc = "done"
    /\ nextProps # saveProps /\ nextState # saveState
    /\ props = saveProps /\ state = saveState

----------------------------------------------------------------------------
(* dispose *)

\* C18: every dispose() leaves the computation handle null and the
\* computation it held stopped, and does not touch data, the failure flag or
\* the previous snapshot; a dispose() after the first changes nothing.
C18_DisposeIdempotent ==
    [][disposeCalls' # disposeCalls =>
          /\ computation' = 0
          /\ computation # 0 => comps'[computation].stopped
          /\ UNCHANGED << data, failedToGetData, oldData >>
          /\ disposeCalls >= 1 =>
                UNCHANGED << computation, comps, pending, setState,
                             forcePending, phase >>]_vars

\* dispose() was called twice on a manager that held a computation
C18_Witness ==
    /\ disposeCalls >= 2 /\ computation = 0
    /\ \E c \in Ids : comps[c].stopped /\ ~comps[c].firstRun

----------------------------------------------------------------------------
(* Reactivity after a failed fetch *)

\* The computation of a client-mode fetch that failed is held and running and
\* has the sources the fetch read as its dependencies; once the hook is over
\* it stays running, and is queued for the flush whenever it is invalidated.
C19_FailedStillTracking ==
    /\ (~isServer /\ hasGetMeteorData /\ pc \in {"ret", "done"}
            /\ ~ValidData(fetched)) =>
          /\ computation \in Ids
          /\ ~comps[computation].stopped
          /\ comps[computation].deps = fetched.reads
    /\ (~isServer /\ hasGetMeteorData /\ pc = "idle" /\ phase = "mounted"
            /\ failedToGetData /\ ~forcePending) =>
          /\ computation \in Ids
          /\ ~comps[computation].stopped
          /\ comps[computation].invalidated => computation \in pending

\* C19 as stated: after a failed client-mode fetch the computation keeps
\* tracking, and a later change to a source it read leads to a forced
\* re-render requested by that computation and to a new fetch.
C19_FailureKeepsForcing ==
    /\ []C19_FailedStillTracking
    /\ \A k \in 1..(MaxComps - 1) :
          (C10_Invalidated(k) /\ failedToGetData
              /\ Len(comps) + 1 < MaxComps) ~>
            (phase = "unmounted"
                \/ (C10_Replaced(k) /\ comps[k].forceUpdates = 1))

\* C19 amended: after a failed client-mode fetch the computation keeps
\* tracking, and a later change to a source it read leads to a new fetch and
\* a new running computation, through the forced re-render unless a
\* pre-update hook recomputes first.
C19_FailureKeepsReactivity ==
    /\ []C19_FailedStillTracking
    /\ \A k \in 1..(MaxComps - 1) :
          (C10_Invalidated(k) /\ failedToGetData) ~>
            (phase = "unmounted" \/ C10_Replaced(k))

\* C19 witness: the computation of a failed fetch requested the forced
\* re-render and the re-render's fetch has run.
C19_Witness ==
    \E k \in Ids :
        /\ ~isServer /\ failedToGetData
        /\ comps[k].forceUpdates = 1
        /\ forcePending /\ pc = "ret" /\ hook = "update"
        /\ computation = k + 1 /\ ~comps[computation].stopped

----------------------------------------------------------------------------
(* updateData on every result *)

\* C20: updateData completes without raising for every value calculateData
\* returns and every previous snapshot, and afterwards the previous snapshot
\* is the value just merged ({} when the snapshot was absent).
C20_UpdateNeverRaises ==
    /\ escaped # "updateData"
    /\ pc = "done" => oldData = Effective(newData)

----------------------------------------------------------------------------
(* calculateData called again with nothing changed *)

\* C14: when calculateData is called again in client mode and no source the
\* previous call read has changed (props and state being the same), it
\* returns the snapshot the previous call returned and leaves exactly one
\* running computation, its own; the previous call's computation is stopped
\* and has requested no re-render, and a computation stopped outside its own
\* re-run never requests one.
C14_RepeatedCalculate ==
    /\ [] ((~isServer /\ hasGetMeteorData /\ prior.known
                /\ pc \in {"ret", "done"}) =>
              /\ newData = prior.result
              /\ computation \in Ids /\ computation >= 2
              /\ Running(comps) = {computation}
              /\ comps[computation - 1].stopped
              /\ comps[computation - 1].forceUpdates = 0)
    /\ [][\A c \in Ids :
              (comps[c].stopped /\ pc # "force") =>
                  comps'[c].forceUpdates = comps[c].forceUpdates]_vars

\* the second of two calls with nothing changed in between has returned a
\* snapshot with a key
C14_Witness ==
    /\ ~isServer /\ prior.known /\ pc = "ret"
    /\ newData.kind = "object" /\ newData.fields["count"] # Absent
    /\ computation = 2 /\ comps[1].stopped

----------------------------------------------------------------------------
(* Computations of other code around the component *)

\* C15: a computation calculateData creates while another computation is
\* current (other code's, or the invalidated computation whose re-run forces
\* the re-render) is running when calculateData returns and is not stopped
\* when the enclosing computation is invalidated; a computation stops only in
\* the manager's calculateData, in dispose, or in its own re-run.
C15_NotNested ==
    /\ [] ((~isServer /\ hasGetMeteorData /\ pc = "ret") =>
              computation \in Ids /\ ~comps[computation].stopped)
    /\ [][outer' # outer =>
              \A c \in Ids : comps'[c].stopped = comps[c].stopped]_vars
    /\ [][\A c \in Ids :
              (~comps[c].stopped /\ comps'[c].stopped) =>
                  \/ pc = "calc" /\ computation = c
                  \/ disposeCalls' # disposeCalls /\ computation = c
                  \/ pc' = "force" /\ cur' = c]_vars

\* the enclosing computation of the mount was invalidated, and the running
\* computation was created inside the re-run of an earlier one
C15_Witness ==
    /\ outer = "invalidated"
    /\ \E c \in Ids : comps[c].within = OuterComputation
    /\ computation \in Ids
    /\ comps[computation].within \in Ids
    /\ ~comps[computation].stopped

----------------------------------------------------------------------------
(* Two components *)

\* The fields of the first component's manager and component, and the
\* computations the first manager made.
C17_FirstUnchanged ==
    /\ UNCHANGED << computation, oldData, data, failedToGetData >>
    /\ \A c \in Ids \ other.made : comps'[c] = comps[c]

\* The same for the second component.
C17_SecondUnchanged ==
    /\ other'.computation = other.computation
    /\ other'.oldData = other.oldData
    /\ other'.data = other.data
    /\ other'.failedToGetData = other.failedToGetData
    /\ \A c \in other.made : comps'[c] = comps[c]

\* C17: a hook, a re-run or a dispose of one component's manager leaves the
\* other manager's computation handle and computations, its previous snapshot
\* and its component's data and failure flag unchanged.
C17_ManagersIndependent ==
    [][/\ (pc # "idle" \/ pc' # "idle" \/ disposeCalls' # disposeCalls)
            => C17_SecondUnchanged
       /\ other' # other => C17_FirstUnchanged]_vars

\* both managers hold a running computation, the first after its own
\* invalidation and recomputation and the second's older than that
C17_Witness ==
    /\ other.computation \in Ids /\ ~comps[other.computation].stopped
    /\ computation \in Ids /\ ~comps[computation].stopped
    /\ computation > other.computation
    /\ \E c \in Ids \ other.made : comps[c].forceUpdates = 1

====
